---------------------------- MODULE Spec2Model ----------------------------
(***************************************************************************)
(* wayland-osd: the presenter (wayland-osd-server) reads NUL-delimited     *)
(* JSON frames from a named pipe inside a GLib idle callback, and shows    *)
(* them on a surface that a 3 second GLib timeout hides again.             *)
(*                                                                         *)
(* Bytes are modelled as tokens (strings).  One token stands for one JSON  *)
(* member of the wire format ("value:45" for "value":45), for JSON white   *)
(* space (" "), for a byte that is text but no JSON ("junk"), for a byte   *)
(* that is no UTF-8 ("0xFF") or for the delimiter (NUL, the byte 0).       *)
(* Sizes are counted in tokens; MAX_MESSAGE_SIZE and READ_BUFFER_SIZE are  *)
(* scaled down accordingly and keep the order of the program's 8192 and    *)
(* 1024.                                                                   *)
(*                                                                         *)
(* Spec and FairSpec start with the read loop running.  MainSpec starts at *)
(* the presenter's main (setup_pipe, the activate closure) and records the *)
(* reads that return no bytes.  ContentSpec is Spec with producers that    *)
(* write messages of every kind.  ClientSpec is the producer CLI           *)
(* (wayland-osd-client) and MonitorSpec the volume monitor                 *)
(* (examples/pipewire-monitor); QueueSpec is the monitor's queue under any *)
(* sequence of add_get_volume_pid calls.  Each leaves the other programs'  *)
(* variables as they are.                                                  *)
(***************************************************************************)
EXTENDS Integers, Sequences, FiniteSets, TLC

\* ------------------------------------------------------------------ bounds
\* const MAX_MESSAGE_SIZE: usize = 8192 (server main.rs:400), scaled.
MAX_MESSAGE_SIZE == 7
\* let mut read_buffer = [0u8; 1024] (server main.rs:399), scaled.
READ_BUFFER_SIZE == 6
\* Number of write calls the producers make on the pipe in one behaviour.
MaxWrites == 3
\* Number of runs of the producer CLI in one behaviour.
MaxRuns == 2
\* const MAX_QUEUE_SIZE: usize = 10 (pipewire-monitor main.rs:13), scaled.
MAX_QUEUE_SIZE == 3
\* Number of programs the user starts while the monitor runs.
MaxCommands == 3
\* Number of calls of add_get_volume_pid in one behaviour of QueueSpec.
MaxAdds == 5

\* glib::timeout_add_seconds_local(3, ...) (server main.rs:341)
HIDE_SECONDS == 3

\* ------------------------------------------------------------------- bytes
NUL == "NUL"

None == <<>>
Some(x) == <<x>>

\* The JSON member a token stands for: the field of OsdMessage and its value.
Members ==
    [tok \in {"type:volume", "type:brightness", "type:text", "type:other",
              "value:45", "value:150", "max_value:100", "max_value:150",
              "text:Muted", "text:Audio Muted", "muted:true",
              "device_name:Speakers"} |->
        CASE tok = "type:volume"          -> [field |-> "type", val |-> "volume"]
          [] tok = "type:brightness"      -> [field |-> "type", val |-> "brightness"]
          [] tok = "type:text"            -> [field |-> "type", val |-> "text"]
          [] tok = "type:other"           -> [field |-> "type", val |-> "other"]
          [] tok = "value:45"             -> [field |-> "value", val |-> 45]
          [] tok = "value:150"            -> [field |-> "value", val |-> 150]
          [] tok = "max_value:100"        -> [field |-> "max_value", val |-> 100]
          [] tok = "max_value:150"        -> [field |-> "max_value", val |-> 150]
          [] tok = "text:Muted"           -> [field |-> "text", val |-> "Muted"]
          [] tok = "text:Audio Muted"     -> [field |-> "text", val |-> "Audio Muted"]
          [] tok = "muted:true"           -> [field |-> "muted", val |-> TRUE]
          [] tok = "device_name:Speakers" -> [field |-> "device_name", val |-> "Speakers"]]

Byte == DOMAIN Members \cup {NUL, " ", "junk", "0xFF"}

\* ----------------------------------------------------------------- parsing
\* String::from_utf8(buffer.clone()): Ok unless some byte is no UTF-8.
from_utf8(bytes) == \A i \in 1..Len(bytes) : bytes[i] # "0xFF"

\* The JSON members of a text, white space skipped.
MemberTokens(str) == SelectSeq(str, LAMBDA b : b # " ")

\* The value of an Option field of OsdMessage: Some(v) when the member is there.
FieldOf(toks, field) ==
    IF \E i \in 1..Len(toks) : Members[toks[i]].field = field
    THEN Some(Members[toks[CHOOSE i \in 1..Len(toks) : Members[toks[i]].field = field]].val)
    ELSE None

\* serde_json::from_str::<OsdMessage>(&msg_str) is Ok: the text is JSON (only
\* member tokens and white space, at least one member), no field is given
\* twice, and the required field `type` is there.
from_str_ok(str) ==
    LET toks == MemberTokens(str) IN
    /\ toks # <<>>
    /\ \A i \in 1..Len(toks) : toks[i] \in DOMAIN Members
    /\ \A i, j \in 1..Len(toks) :
           Members[toks[i]].field = Members[toks[j]].field => i = j
    /\ \E i \in 1..Len(toks) : Members[toks[i]].field = "type"

\* The OsdMessage that serde_json::from_str builds.
from_str(str) ==
    LET toks == MemberTokens(str) IN
    [message_type |-> FieldOf(toks, "type")[1],
     value        |-> FieldOf(toks, "value"),
     max_value    |-> FieldOf(toks, "max_value"),
     text         |-> FieldOf(toks, "text"),
     muted        |-> FieldOf(toks, "muted"),
     device_name  |-> FieldOf(toks, "device_name")]


\* ------------------------------------------------------------ display state
\* The widgets of UiElements as create_ui leaves them: everything hidden.
InitUi ==
    [window        |-> FALSE,
     progress_bar  |-> FALSE,
     fraction      |-> 0,
     overamplified |-> FALSE,
     label         |-> FALSE,
     label_text    |-> "",
     device_label  |-> FALSE,
     device_text   |-> "",
     icon          |-> FALSE,
     icon_name     |-> "volume-medium",
     drawing_area  |-> FALSE,
     max_value     |-> 100]

\* The display state handle_message works on: the widgets, the stored
\* timeout_source_id, and GLib's table of pending timeout sources (each with
\* the seconds left until it is dispatched) and its next source id.
InitDisplay ==
    [ui                |-> InitUi,
     timeout_source_id |-> None,
     sources           |-> {},
     next_source_id    |-> 1]

\* The producer CLI before its first run.
InitClient ==
    [runs      |-> 0,
     pc        |-> "none",
     command   |-> [cmd |-> "", message |-> <<>>, value |-> 0, max |-> 0,
                    mute |-> FALSE, name |-> ""],
     result    |-> "Ok",
     exit_code |-> 0,
     attempts  |-> 0,
     calls     |-> <<>>,
     delivered |-> <<>>]

\* std::process::id() of the monitor; the other processes get the pids after it.
MonitorPid == 1

\* The monitor when its registry listener has been registered: the queue
\* GET_VOLUME_PIDS is empty, no event is pending.
InitMonitor ==
    [queue     |-> <<>>,           \* GET_VOLUME_PIDS
     events    |-> <<>>,           \* registry globals not yet handed to the listener
     procs     |-> {},             \* the user's processes that run: [pid, args]
     next_pid  |-> MonitorPid + 1, \* the pid of the next process
     commands  |-> 0,              \* history: programs the user has started
     own       |-> <<>>,           \* history: pids of the wpctl get_volume_info ran
     added     |-> <<>>,           \* history: the pids add_get_volume_pid was called with
     reactions |-> <<>>,           \* history: pids is_volume_command accepted
     spawned   |-> 0]              \* history: clients run_client has spawned

get_volume_icon(value, muted) ==
    IF muted THEN "volume-muted"
    ELSE IF value > 100 THEN "volume-overamplified"
    ELSE IF value > 66 THEN "volume-high"
    ELSE IF value > 33 THEN "volume-medium"
    ELSE "volume-low"

\* value as f64 / max as f64 handed to ProgressBar::set_fraction, which
\* clamps to 0.0 ..= 1.0; in thousandths.  x/0 is +inf, -inf or NaN (-1 here).
set_fraction(value, max) ==
    IF max = 0
    THEN (IF value > 0 THEN 1000 ELSE IF value < 0 THEN 0 ELSE -1)
    ELSE LET neg == (value < 0) # (max < 0)
             av  == IF value < 0 THEN -value ELSE value
             am  == IF max < 0 THEN -max ELSE max
             q   == (av * 1000) \div am
         IN  IF neg THEN 0 ELSE IF q > 1000 THEN 1000 ELSE q

\* The "volume" arm of handle_message.
\* Variant: the level is shown but a label that is visible is left visible.
RenderVolume_keeplabel(ui, msg) ==
    IF msg.value # None /\ msg.max_value # None
    THEN LET value == msg.value[1]
             max   == msg.max_value[1]
         IN  [ui EXCEPT
                !.fraction      = set_fraction(value, max),
                !.progress_bar  = TRUE,
                !.device_text   = IF msg.device_name # None THEN msg.device_name[1] ELSE @,
                !.device_label  = (msg.device_name # None),
                !.overamplified = (value > 100),
                !.max_value     = IF max > 100 THEN max ELSE @,
                !.drawing_area  = (max > 100),
                !.icon_name     = get_volume_icon(value,
                                      IF msg.muted # None THEN msg.muted[1] ELSE FALSE),
                !.icon          = TRUE]
    ELSE ui

RenderVolume(ui, msg) ==
    IF msg.value # None /\ msg.max_value # None
    THEN LET value == msg.value[1]
             max   == msg.max_value[1]
         IN  [ui EXCEPT
                !.fraction      = set_fraction(value, max),
                !.progress_bar  = TRUE,
                !.label         = FALSE,
                !.device_text   = IF msg.device_name # None THEN msg.device_name[1] ELSE @,
                !.device_label  = (msg.device_name # None),
                !.overamplified = (value > 100),
                !.max_value     = IF max > 100 THEN max ELSE @,
                !.drawing_area  = (max > 100),
                !.icon_name     = get_volume_icon(value,
                                      IF msg.muted # None THEN msg.muted[1] ELSE FALSE),
                !.icon          = TRUE]
    ELSE ui

\* The "brightness" arm of handle_message.
RenderBrightness(ui, msg) ==
    IF msg.value # None /\ msg.max_value # None
    THEN [ui EXCEPT
            !.fraction     = set_fraction(msg.value[1], msg.max_value[1]),
            !.progress_bar = TRUE,
            !.label        = FALSE,
            !.device_label = FALSE,
            !.drawing_area = FALSE,
            !.icon_name    = "brightness",
            !.icon         = TRUE]
    ELSE ui

\* The "text" arm of handle_message.
\* Variant: the text is shown but the progress bar and icon are left as they are.
RenderText_keepbar(ui, msg) ==
    IF msg.text # None
    THEN [ui EXCEPT !.label_text = msg.text[1], !.label = TRUE]
    ELSE ui

RenderText(ui, msg) ==
    IF msg.text # None
    THEN [ui EXCEPT
            !.label_text   = msg.text[1],
            !.label        = TRUE,
            !.progress_bar = FALSE,
            !.icon         = FALSE,
            !.device_label = FALSE,
            !.drawing_area = FALSE]
    ELSE ui

KnownTypes == {"volume", "brightness", "text"}

\* "Remove existing timeout if any": take() the stored id and g_source_remove
\* it; a failing removal is only logged.
\* Variant: the stored id is taken but g_source_remove is not called.
RemoveExistingTimeout_forget(d) ==
    [d EXCEPT !.timeout_source_id = None]

RemoveExistingTimeout(d) ==
    IF d.timeout_source_id # None
    THEN [d EXCEPT !.timeout_source_id = None,
                   !.sources = {s \in @ : s.id # d.timeout_source_id[1]}]
    ELSE d

\* "Schedule new hide timeout after 3 seconds" and store its source id.
\* Variant: the new source is armed but its id is not stored.
ScheduleHide_nostore(d) ==
    [d EXCEPT !.sources = @ \cup {[id |-> d.next_source_id, remaining |-> HIDE_SECONDS]},
              !.next_source_id = @ + 1]

ScheduleHide(d) ==
    [d EXCEPT !.sources = @ \cup {[id |-> d.next_source_id, remaining |-> HIDE_SECONDS]},
              !.timeout_source_id = Some(d.next_source_id),
              !.next_source_id = @ + 1]

\* ui.window.set_visible(true)
ShowWindow(d) == [d EXCEPT !.ui.window = TRUE]

\* handle_message(ui, msg): render by message type (an unknown type returns
\* at once), then cancel the stored timeout, show the window, arm a new one.
\* Variant: a message that finds a timer stored leaves that timer running.
handle_message_norearm(d, msg) ==
    IF msg.message_type \notin KnownTypes
    THEN d
    ELSE LET rendered ==
                 CASE msg.message_type = "volume"     -> RenderVolume(d.ui, msg)
                   [] msg.message_type = "brightness" -> RenderBrightness(d.ui, msg)
                   [] msg.message_type = "text"       -> RenderText(d.ui, msg)
         IN  IF d.timeout_source_id # None
             THEN ShowWindow([d EXCEPT !.ui = rendered])
             ELSE ScheduleHide(ShowWindow([d EXCEPT !.ui = rendered]))

\* Variant: the `_` arm does not return and falls through to the timer code.
handle_message_fallthrough(d, msg) ==
    LET rendered ==
            CASE msg.message_type = "volume"     -> RenderVolume(d.ui, msg)
              [] msg.message_type = "brightness" -> RenderBrightness(d.ui, msg)
              [] msg.message_type = "text"       -> RenderText(d.ui, msg)
              [] OTHER                           -> d.ui
    IN  ScheduleHide(ShowWindow(RemoveExistingTimeout([d EXCEPT !.ui = rendered])))

handle_message(d, msg) ==
    IF msg.message_type \notin KnownTypes
    THEN d
    ELSE LET rendered ==
                 CASE msg.message_type = "volume"     -> RenderVolume(d.ui, msg)
                   [] msg.message_type = "brightness" -> RenderBrightness(d.ui, msg)
                   [] msg.message_type = "text"       -> RenderText(d.ui, msg)
         IN  ScheduleHide(ShowWindow(RemoveExistingTimeout([d EXCEPT !.ui = rendered])))


\* ---------------------------------------------------------------- variables
VARIABLES
    pipe,               \* bytes written to the named pipe and not yet read
    buffer,             \* the pending buffer of the read closure
    ui,                 \* the widgets of UiElements
    timeout_source_id,  \* UiElements.timeout_source_id: None or Some(id)
    sources,            \* GLib's pending timeout sources: [id, remaining]
    next_source_id,     \* the id GLib gives the next source
    sent,               \* history: every byte written to the pipe so far
    writes,             \* history: the number of write calls so far
    handed,             \* history: the frames handed to from_utf8/from_str
    applied,            \* history: the messages handle_message was called with
    batch,              \* history: how many of them the latest callback run applied
    hides,              \* history: how many times a timer has hidden the window
    elapsed,            \* history: seconds since a message of a known type was last applied
    pc,                 \* where main is: "start", "activating", "active" or "failed"
    path,               \* what is at PIPE_PATH: "absent", "stale", "dangling" or "fifo"
    idle,               \* the idle source of the read closure is scheduled
    found,              \* history: what was at PIPE_PATH when main started
    error,              \* history: the step of the startup that failed, or "none"
    polled,             \* history (MainSpec): the outcomes of the reads that returned no
                        \* bytes since the last read that returned some
    client,             \* wayland-osd-client: its latest run
    service,            \* a service owns the name org.wayland.Osd on the session bus
    monitor             \* pipewire-monitor, the processes and the registry events

\* The presenter's startup and the read closure's scheduling.
startup == <<pc, path, idle, found, error, polled>>

\* The other programs: the producer CLI, the bus it calls, and the monitor.
peers == <<client, service, monitor>>

vars == <<pipe, buffer, ui, timeout_source_id, sources, next_source_id,
          sent, writes, handed, applied, batch, hides, elapsed, startup, peers>>

\* ----------------------------------------------------------------- read loop
\* Lines 434-448: the completed frame goes to from_utf8 and from_str, and a
\* message that parses goes to handle_message.  A frame that does not parse
\* is only logged.
DeliverFrame(st, frame) ==
    LET st1 == [st EXCEPT !.handed = Append(@, frame)] IN
    IF from_utf8(frame) /\ from_str_ok(frame)
    THEN [st1 EXCEPT !.d = handle_message(@, from_str(frame)),
                     !.applied = Append(@, from_str(frame))]
    ELSE st1

\* Lines 430-450, with the slice before the delimiter already appended: a
\* buffer over MAX_MESSAGE_SIZE is discarded, any other is delivered, and
\* the buffer is cleared.
\* Variant: an oversized buffer is reported but not cleared.
CompleteFrame_keep(st) ==
    IF Len(st.buffer) > MAX_MESSAGE_SIZE
    THEN st
    ELSE IF st.buffer # <<>>
         THEN [DeliverFrame(st, st.buffer) EXCEPT !.buffer = <<>>]
         ELSE st

\* Variant: the buffer is cleared only after a frame that parsed.
CompleteFrame_dirty(st) ==
    IF Len(st.buffer) > MAX_MESSAGE_SIZE
    THEN [st EXCEPT !.buffer = <<>>]
    ELSE IF st.buffer # <<>>
         THEN IF from_utf8(st.buffer) /\ from_str_ok(st.buffer)
              THEN [DeliverFrame(st, st.buffer) EXCEPT !.buffer = <<>>]
              ELSE DeliverFrame(st, st.buffer)
         ELSE st

\* Variant: a buffer of exactly MAX_MESSAGE_SIZE bytes is discarded as well.
CompleteFrame_strict(st) ==
    IF Len(st.buffer) >= MAX_MESSAGE_SIZE
    THEN [st EXCEPT !.buffer = <<>>]
    ELSE IF st.buffer # <<>>
         THEN [DeliverFrame(st, st.buffer) EXCEPT !.buffer = <<>>]
         ELSE st

CompleteFrame(st) ==
    IF Len(st.buffer) > MAX_MESSAGE_SIZE
    THEN [st EXCEPT !.buffer = <<>>]
    ELSE IF st.buffer # <<>>
         THEN [DeliverFrame(st, st.buffer) EXCEPT !.buffer = <<>>]
         ELSE st

\* Lines 426-453: the delimiter is byte i of the chunk (start and i count
\* from 1 here).
\* Variant: start is not moved past the delimiter.
OnDelimiter_nostart(st, chunk, i) ==
    IF st.buffer # <<>> \/ i > st.start
    THEN CompleteFrame([st EXCEPT !.buffer = @ \o SubSeq(chunk, st.start, i - 1)])
    ELSE st

OnDelimiter(st, chunk, i) ==
    LET st1 == IF st.buffer # <<>> \/ i > st.start
               THEN CompleteFrame([st EXCEPT !.buffer = @ \o SubSeq(chunk, st.start, i - 1)])
               ELSE st
    IN  [st1 EXCEPT !.start = i + 1]

\* Lines 425-454: for (i, &byte) in read_buffer[..n].iter().enumerate()
RECURSIVE ScanChunk(_, _, _)
ScanChunk(st, chunk, i) ==
    IF i > Len(chunk) THEN st
    ELSE ScanChunk(IF chunk[i] = NUL THEN OnDelimiter(st, chunk, i) ELSE st, chunk, i + 1)

\* Lines 456-464: the bytes after the last delimiter join the pending buffer,
\* unless that would exceed MAX_MESSAGE_SIZE: then the buffer is discarded.
\* Variant: the remaining bytes replace the pending buffer instead of extending it.
AppendRemaining_replace(st, chunk) ==
    IF st.start <= Len(chunk)
    THEN LET remaining == SubSeq(chunk, st.start, Len(chunk)) IN
         IF Len(st.buffer) + Len(remaining) > MAX_MESSAGE_SIZE
         THEN [st EXCEPT !.buffer = <<>>]
         ELSE [st EXCEPT !.buffer = remaining]
    ELSE st

\* Variant: the remaining bytes are appended without looking at the size.
AppendRemaining_nolimit(st, chunk) ==
    IF st.start <= Len(chunk)
    THEN [st EXCEPT !.buffer = @ \o SubSeq(chunk, st.start, Len(chunk))]
    ELSE st

AppendRemaining(st, chunk) ==
    IF st.start <= Len(chunk)
    THEN LET remaining == SubSeq(chunk, st.start, Len(chunk)) IN
         IF Len(st.buffer) + Len(remaining) > MAX_MESSAGE_SIZE
         THEN [st EXCEPT !.buffer = <<>>]
         ELSE [st EXCEPT !.buffer = @ \o remaining]
    ELSE st

\* The Ok(n) arm of the idle callback on the chunk read_buffer[..n].
\* Variant: what is pending at the end of the chunk is delivered at once.
ProcessChunk_eager(st, chunk) ==
    CompleteFrame(AppendRemaining(ScanChunk([st EXCEPT !.start = 1], chunk, 1), chunk))

ProcessChunk(st, chunk) ==
    AppendRemaining(ScanChunk([st EXCEPT !.start = 1], chunk, 1), chunk)

\* ------------------------------------------------------------------ actions
Display ==
    [ui |-> ui, timeout_source_id |-> timeout_source_id,
     sources |-> sources, next_source_id |-> next_source_id]

\* Line 473: what the read closure returns after a read with the given
\* outcome ("bytes", "eof", "wouldblock" or "error").
\* Variant: a read error other than WouldBlock ends the idle source.
ControlFlow_breakOnError(outcome) ==
    IF outcome = "error" THEN "Break" ELSE "Continue"

ControlFlow(outcome) == "Continue"

\* One run of the idle callback whose read returns n bytes, 1 <= n <= 1024.
ReadBytes(n) ==
    /\ idle
    /\ n \in 1..READ_BUFFER_SIZE
    /\ n <= Len(pipe)
    /\ \E st \in {ProcessChunk([buffer |-> buffer, start |-> 1, d |-> Display,
                                handed |-> handed, applied |-> applied],
                               SubSeq(pipe, 1, n))} :
           /\ pipe' = SubSeq(pipe, n + 1, Len(pipe))
           /\ buffer' = st.buffer
           /\ ui' = st.d.ui
           /\ timeout_source_id' = st.d.timeout_source_id
           /\ sources' = st.d.sources
           /\ next_source_id' = st.d.next_source_id
           /\ handed' = st.handed
           /\ applied' = st.applied
           /\ batch' = Len(st.applied) - Len(applied)
           /\ elapsed' = IF \E k \in (Len(applied) + 1)..Len(st.applied) :
                                 st.applied[k].message_type \in KnownTypes
                           THEN 0 ELSE elapsed
    /\ idle' = (ControlFlow("bytes") = "Continue")
    /\ polled' = {}
    /\ UNCHANGED <<sent, writes, hides, pc, path, found, error, peers>>

\* One run of the idle callback whose read returns Ok(0) (no writer has the
\* pipe open), Err(WouldBlock) (nothing to read) or another error: nothing
\* changes and the callback stays scheduled.
ReadNothing ==
    /\ idle
    /\ pipe = <<>>
    /\ UNCHANGED vars

\* The same run of the idle callback with its outcome recorded: Ok(0) ("eof")
\* and Err(WouldBlock) when there is nothing to read, any other Err at any
\* time.  The buffer and the display are not touched.
\* Variant: on end-of-stream the pipe is reopened and what was pending is dropped.
ReadFails_reopen(outcome) ==
    /\ idle
    /\ outcome \in {"eof", "wouldblock", "error"}
    /\ outcome \in {"eof", "wouldblock"} => pipe = <<>>
    /\ polled' = polled \cup {outcome}
    /\ buffer' = IF outcome = "eof" THEN <<>> ELSE buffer
    /\ idle' = (ControlFlow(outcome) = "Continue")
    /\ UNCHANGED <<pipe, ui, timeout_source_id, sources, next_source_id,
                   sent, writes, handed, applied, batch, hides, elapsed,
                   pc, path, found, error, peers>>

ReadFails(outcome) ==
    /\ idle
    /\ outcome \in {"eof", "wouldblock", "error"}
    /\ outcome \in {"eof", "wouldblock"} => pipe = <<>>
    /\ polled' = polled \cup {outcome}
    /\ idle' = (ControlFlow(outcome) = "Continue")
    /\ UNCHANGED <<pipe, buffer, ui, timeout_source_id, sources, next_source_id,
                   sent, writes, handed, applied, batch, hides, elapsed,
                   pc, path, found, error, peers>>

\* The closure of timeout_add_seconds_local, dispatched when the source is
\* due: hide the window, clear the stored id, ControlFlow::Break.
\* Variant: the closure hides the window but leaves the stored id in place.
TimerFire_keepid(s) ==
    /\ s \in sources
    /\ s.remaining = 0
    /\ ui' = [ui EXCEPT !.window = FALSE]
    /\ sources' = sources \ {s}
    /\ hides' = hides + 1
    /\ UNCHANGED <<pipe, buffer, timeout_source_id, next_source_id, sent, writes,
                   handed, applied, batch, elapsed, startup, peers>>

TimerFire(s) ==
    /\ s \in sources
    /\ s.remaining = 0
    /\ ui' = [ui EXCEPT !.window = FALSE]
    /\ timeout_source_id' = None
    /\ sources' = sources \ {s}
    /\ hides' = hides + 1
    /\ UNCHANGED <<pipe, buffer, next_source_id, sent, writes, handed, applied,
                   batch, elapsed, startup, peers>>

\* One second passes on the main loop's clock.  A source that is due is
\* dispatched before the clock is looked at again.
Tick ==
    /\ sources # {}
    /\ \A s \in sources : s.remaining > 0
    /\ sources' = {[s EXCEPT !.remaining = @ - 1] : s \in sources}
    /\ elapsed' = IF elapsed < HIDE_SECONDS THEN elapsed + 1 ELSE elapsed
    /\ UNCHANGED <<pipe, buffer, ui, timeout_source_id, next_source_id,
                   sent, writes, handed, applied, batch, hides, startup, peers>>

\* --------------------------------------------------------------- producers
\* A producer's payload: the serialized message followed by the delimiter.
Frame(tokens) == Append(tokens, NUL)

RECURSIVE Repeat(_, _)
Repeat(b, n) == IF n <= 0 THEN <<>> ELSE <<b>> \o Repeat(b, n - 1)

\* What the producers of the model write in one write call: valid messages
\* (one padded with JSON white space to exactly MAX_MESSAGE_SIZE bytes),
\* frames that do not parse, and an undelimited run over MAX_MESSAGE_SIZE.
VolumeFrame == <<"type:volume", "value:45", "max_value:100">>
TextFrame == <<"type:text", "text:Muted">>
BrightnessFrame ==
    <<"type:brightness", "value:45", "max_value:100">>
        \o Repeat(" ", MAX_MESSAGE_SIZE - 3)
UnknownFrame == <<"type:other">>
BareFrame == <<"type:volume">>
UndelimitedRun == Repeat("junk", MAX_MESSAGE_SIZE + 1)

Payloads ==
    { Frame(VolumeFrame), Frame(TextFrame), Frame(BrightnessFrame),
      Frame(UnknownFrame), Frame(BareFrame),
      Frame(<<"0xFF">>), Frame(<<"junk">>), Frame(<<"text:Muted">>),
      UndelimitedRun }

\* What the producers of MainSpec write: a text message in two write calls
\* (its first bytes, then the rest with the delimiter), the undelimited run,
\* a frame that is no UTF-8 followed by one that is no JSON, and a message
\* of unknown type.
HeadOfText == <<"type:text">>
RestOfText == <<"text:Muted", NUL>>
BadFrames == Frame(<<"0xFF">>) \o Frame(<<"junk">>)

Pieces ==
    { HeadOfText, RestOfText, UndelimitedRun, BadFrames, Frame(UnknownFrame) }

\* What the producers of ContentSpec write: messages of every kind, among
\* them a volume over 100% that names its device and a brightness message
\* without its level.
LoudFrame ==
    <<"type:volume", "value:150", "max_value:150", "device_name:Speakers">>
LevelFrame == <<"type:brightness", "value:45", "max_value:100">>
BareLevelFrame == <<"type:brightness">>

Contents ==
    { Frame(LoudFrame), Frame(VolumeFrame), Frame(LevelFrame),
      Frame(TextFrame), Frame(BareLevelFrame), Frame(UnknownFrame) }

\* A producer writes one payload with a single write call.
Write(payload) ==
    /\ writes < MaxWrites
    /\ payload \in Payloads \cup Pieces \cup Contents
    /\ pipe' = pipe \o payload
    /\ sent' = sent \o payload
    /\ writes' = writes + 1
    /\ UNCHANGED <<buffer, ui, timeout_source_id, sources, next_source_id,
                   handed, applied, batch, hides, elapsed, startup, peers>>

\* ------------------------------------------------------------ specification
Init ==
    /\ pipe = <<>>
    /\ buffer = <<>>
    /\ ui = InitDisplay.ui
    /\ timeout_source_id = InitDisplay.timeout_source_id
    /\ sources = InitDisplay.sources
    /\ next_source_id = InitDisplay.next_source_id
    /\ sent = <<>>
    /\ writes = 0
    /\ handed = <<>>
    /\ applied = <<>>
    /\ batch = 0
    /\ hides = 0
    /\ elapsed = 0
    /\ pc = "active"
    /\ path = "fifo"
    /\ idle = TRUE
    /\ found = "absent"
    /\ error = "none"
    /\ polled = {}
    /\ client = InitClient
    /\ service = FALSE
    /\ monitor = InitMonitor

Next ==
    \/ \E payload \in Payloads : Write(payload)
    \/ \E n \in 1..READ_BUFFER_SIZE : ReadBytes(n)
    \/ ReadNothing
    \/ \E s \in sources : TimerFire(s)
    \/ Tick

Spec == Init /\ [][Next]_vars


\* A burst of messages: the producers write only frames that parse.
Messages ==
    { Frame(VolumeFrame), Frame(TextFrame), Frame(BareFrame), Frame(UnknownFrame) }

BurstNext ==
    \/ \E payload \in Messages : Write(payload)
    \/ \E n \in 1..READ_BUFFER_SIZE : ReadBytes(n)
    \/ ReadNothing
    \/ \E s \in sources : TimerFire(s)
    \/ Tick

\* The main loop keeps running (application.run()): its clock advances and
\* a timeout source that is due is dispatched.
FairSpec ==
    /\ Init /\ [][BurstNext]_vars
    /\ WF_vars(Tick)
    /\ WF_vars(\E s \in sources : TimerFire(s))

\* The presenter fed with messages of every kind.
ContentNext ==
    \/ \E payload \in Contents : Write(payload)
    \/ \E n \in 1..READ_BUFFER_SIZE : ReadBytes(n)
    \/ ReadNothing
    \/ \E s \in sources : TimerFire(s)
    \/ Tick

ContentSpec == Init /\ [][ContentNext]_vars

\* ------------------------------------------------------------------ startup
\* setup_pipe() on what is at PIPE_PATH; remove_ok and mkfifo_ok are the
\* outcomes of fs::remove_file and mkfifo.  Path::exists() follows links, so
\* it is false for a dangling link, which mkfifo then finds in its way.
\* Variant: the errors of remove_file and mkfifo are dropped instead of returned.
setup_pipe_ignore(p, remove_ok, mkfifo_ok) ==
    LET p1 == IF p = "stale" /\ remove_ok THEN "absent" ELSE p IN
    [path |-> IF p1 = "absent" /\ mkfifo_ok THEN "fifo" ELSE p1, result |-> "none"]

setup_pipe(p, remove_ok, mkfifo_ok) ==
    IF p = "stale" /\ ~remove_ok
    THEN [path |-> p, result |-> "remove"]
    ELSE LET p1 == IF p = "stale" THEN "absent" ELSE p IN
         IF p1 = "absent" /\ mkfifo_ok
         THEN [path |-> "fifo", result |-> "none"]
         ELSE [path |-> p1, result |-> "mkfifo"]

\* main up to application.run(): gtk::init()? and setup_pipe()?; an Err
\* makes main return it, which ends the process with a failure.
MainStart(gtk_ok, remove_ok, mkfifo_ok) ==
    /\ pc = "start"
    /\ IF ~gtk_ok
       THEN /\ pc' = "failed"
            /\ error' = "gtk"
            /\ path' = path
       ELSE \E r \in {setup_pipe(path, remove_ok, mkfifo_ok)} :
               /\ path' = r.path
               /\ error' = r.result
               /\ pc' = IF r.result = "none" THEN "activating" ELSE "failed"
    /\ UNCHANGED <<pipe, buffer, ui, timeout_source_id, sources, next_source_id,
                   sent, writes, handed, applied, batch, hides, elapsed,
                   idle, found, polled, peers>>

\* The connect_activate closure, run by application.run(): create_ui, then
\* open the pipe; the idle source is added only if the open succeeded, and a
\* failed open is logged.
Activate(open_ok) ==
    /\ pc = "activating"
    /\ pc' = "active"
    /\ ui' = InitUi
    /\ timeout_source_id' = None
    /\ idle' = open_ok
    /\ error' = IF open_ok THEN error ELSE "open"
    /\ UNCHANGED <<pipe, buffer, sources, next_source_id, sent, writes, handed,
                   applied, batch, hides, elapsed, path, found, polled, peers>>

\* The state when main starts: nothing, a file left by an earlier run, or a
\* dangling link is at PIPE_PATH.
MainInit ==
    /\ pipe = <<>>
    /\ buffer = <<>>
    /\ ui = InitDisplay.ui
    /\ timeout_source_id = InitDisplay.timeout_source_id
    /\ sources = InitDisplay.sources
    /\ next_source_id = InitDisplay.next_source_id
    /\ sent = <<>>
    /\ writes = 0
    /\ handed = <<>>
    /\ applied = <<>>
    /\ batch = 0
    /\ hides = 0
    /\ elapsed = 0
    /\ pc = "start"
    /\ path \in {"absent", "stale", "dangling"}
    /\ idle = FALSE
    /\ found = path
    /\ error = "none"
    /\ polled = {}
    /\ client = InitClient
    /\ service = FALSE
    /\ monitor = InitMonitor

\* A producer's open of the pipe for writing completes once a reader has it
\* open.
MainNext ==
    \/ \E gtk_ok, remove_ok, mkfifo_ok \in BOOLEAN : MainStart(gtk_ok, remove_ok, mkfifo_ok)
    \/ \E open_ok \in BOOLEAN : Activate(open_ok)
    \/ \E payload \in Pieces : idle /\ Write(payload)
    \/ \E n \in 1..READ_BUFFER_SIZE : ReadBytes(n)
    \/ \E outcome \in {"eof", "wouldblock", "error"} : ReadFails(outcome)
    \/ \E s \in sources : TimerFire(s)
    \/ Tick

MainSpec == MainInit /\ [][MainNext]_vars

\* ------------------------------------------------------------ producer CLI
\* wayland-osd-client.  A message is the token sequence of its JSON text.

\* The token of a JSON member.
Token(field, val) ==
    CHOOSE tok \in DOMAIN Members : Members[tok].field = field /\ Members[tok].val = val

\* json!({...}).to_string() in the arms of main: serde_json's Map is a
\* BTreeMap, so the members come out in the order of their keys.
AudioMessage(volume, max_volume, mute) ==
    IF mute
    THEN <<Token("text", "Audio Muted"), Token("type", "text")>>
    ELSE <<Token("max_value", max_volume), Token("type", "volume"), Token("value", volume)>>

BrightnessMessage(level, max_level) ==
    <<Token("max_value", max_level), Token("type", "brightness"), Token("value", level)>>

TextMessage(message) ==
    <<Token("text", message), Token("type", "text")>>

\* serde_json::from_str::<serde_json::Value>(&message) is Ok: the text is
\* JSON, whatever its members.
\* Variant: only an empty argument is refused.
json_value_ok_nonempty(str) == str # <<>>

json_value_ok(str) ==
    LET toks == MemberTokens(str) IN
    /\ toks # <<>>
    /\ \A i \in 1..Len(toks) : toks[i] \in DOMAIN Members

\* String::from_utf8_lossy: a byte that is no UTF-8 becomes U+FFFD.
from_utf8_lossy(bytes) ==
    [i \in 1..Len(bytes) |-> IF bytes[i] = "0xFF" THEN "junk" ELSE bytes[i]]

\* OsdClient::send_message: one show_message call on the proxy, which fails
\* when no service answers it.
\* Variant: the error of the call is dropped.
send_message_swallow(c, message, up) ==
    [c EXCEPT !.calls     = Append(@, message),
              !.attempts  = @ + 1,
              !.delivered = IF up THEN Append(@, message) ELSE @,
              !.result    = "Ok"]

send_message(c, message, up) ==
    [c EXCEPT !.calls     = Append(@, message),
              !.attempts  = @ + 1,
              !.delivered = IF up THEN Append(@, message) ELSE @,
              !.result    = IF up THEN "Ok" ELSE "Err:send"]

\* The scripts under /usr/local/share/wayland-osd/backends: whether the
\* script can be executed, whether it exits with success, and its stdout.
Backends ==
    [name \in {"missing", "failing", "volume", "garbage"} |->
        CASE name = "missing" -> [exec_ok |-> FALSE, success |-> FALSE, stdout |-> <<>>]
          [] name = "failing" -> [exec_ok |-> TRUE, success |-> FALSE, stdout |-> <<"junk">>]
          [] name = "volume"  -> [exec_ok |-> TRUE, success |-> TRUE,
                                  stdout |-> <<"type:volume", "value:45", "max_value:100">>]
          [] name = "garbage" -> [exec_ok |-> TRUE, success |-> TRUE, stdout |-> <<"0xFF">>]]

\* OsdClient::run_backend
run_backend(c, name, up) ==
    LET output == Backends[name] IN
    IF ~output.exec_ok THEN [c EXCEPT !.result = "Err:execute"]
    ELSE IF ~output.success THEN [c EXCEPT !.result = "Err:script"]
    ELSE send_message(c, from_utf8_lossy(output.stdout), up)

\* The command line as clap parsed it (enum Commands); the fields a
\* subcommand does not have are left at 0, FALSE or empty.
Json(message) ==
    [cmd |-> "json", message |-> message, value |-> 0, max |-> 0, mute |-> FALSE, name |-> ""]
Audio(volume, max_volume, mute) ==
    [cmd |-> "audio", message |-> <<>>, value |-> volume, max |-> max_volume,
     mute |-> mute, name |-> ""]
Brightness(level, max_level) ==
    [cmd |-> "brightness", message |-> <<>>, value |-> level, max |-> max_level,
     mute |-> FALSE, name |-> ""]
Text(message) ==
    [cmd |-> "text", message |-> message, value |-> 0, max |-> 0, mute |-> FALSE, name |-> ""]
Backend(name) ==
    [cmd |-> "backend", message |-> <<>>, value |-> 0, max |-> 0, mute |-> FALSE, name |-> name]

\* The raw arguments of `json` tried: a message, JSON that lacks `type`,
\* JSON of an unknown type, and text that is no JSON.
RawArguments ==
    { <<"type:text", "text:Muted">>, <<"text:Muted">>, <<"type:other">>, <<"junk">> }

Commands ==
    {Json(message) : message \in RawArguments}
        \cup {Audio(v, m, mute) : v \in {45, 150}, m \in {100, 150}, mute \in BOOLEAN}
        \cup {Brightness(45, m) : m \in {100, 150}}
        \cup {Text("Muted")}
        \cup {Backend(name) : name \in DOMAIN Backends}

\* The exit code of the process for what main returned: 0 for Ok(()), 1 for
\* an Err.
ExitCode(result) == IF result = "Ok" THEN 0 ELSE 1

\* main of wayland-osd-client, with the session bus reachable or not
\* (OsdClient::new) and the service up or not.
main(c, command, bus_ok, up) ==
    LET c0 == [c EXCEPT !.runs = @ + 1, !.pc = "exited", !.command = command,
                        !.result = "Ok", !.attempts = 0,
                        !.calls = <<>>, !.delivered = <<>>]
        c1 == IF ~bus_ok THEN [c0 EXCEPT !.result = "Err:connect"]
              ELSE CASE command.cmd = "json" ->
                            IF json_value_ok(command.message)
                            THEN send_message(c0, command.message, up)
                            ELSE [c0 EXCEPT !.result = "Err:validate"]
                     [] command.cmd = "audio" ->
                            send_message(c0, AudioMessage(command.value, command.max,
                                                          command.mute), up)
                     [] command.cmd = "brightness" ->
                            send_message(c0, BrightnessMessage(command.value, command.max), up)
                     [] command.cmd = "text" ->
                            send_message(c0, TextMessage(command.message), up)
                     [] command.cmd = "backend" ->
                            run_backend(c0, command.name, up)
    IN  [c1 EXCEPT !.exit_code = ExitCode(c1.result)]

\* One run of the producer CLI, from its start to its exit.
RunClient(command, bus_ok) ==
    /\ client.runs < MaxRuns
    /\ command \in Commands
    /\ client' = main(client, command, bus_ok, service)
    /\ UNCHANGED <<pipe, buffer, ui, timeout_source_id, sources, next_source_id,
                   sent, writes, handed, applied, batch, hides, elapsed, startup,
                   service, monitor>>

\* A service takes the name org.wayland.Osd on the session bus, or the one
\* that had it goes away.
ServiceChange ==
    /\ service' = ~service
    /\ UNCHANGED <<pipe, buffer, ui, timeout_source_id, sources, next_source_id,
                   sent, writes, handed, applied, batch, hides, elapsed, startup,
                   client, monitor>>

ClientNext ==
    \/ \E command \in Commands, bus_ok \in BOOLEAN : RunClient(command, bus_ok)
    \/ ServiceChange

ClientSpec == Init /\ [][ClientNext]_vars

\* -------------------------------------------------------- pipewire-monitor
\* add_get_volume_pid(pid) on the queue q.
\* Variant: a full queue loses its newest pid (pop_back) instead of its oldest.
add_get_volume_pid_newest(q, pid) ==
    Append(IF Len(q) >= MAX_QUEUE_SIZE THEN SubSeq(q, 1, Len(q) - 1) ELSE q, pid)

add_get_volume_pid(q, pid) ==
    Append(IF Len(q) >= MAX_QUEUE_SIZE THEN Tail(q) ELSE q, pid)

\* The words is_volume_command looks for in /proc/<pid>/cmdline.
VolumeWords == {"set-volume", "set-mute", "@DEFAULT_AUDIO_SINK@"}

\* is_volume_command(pid): false for a pid in the queue; else the command
\* line of the process is read, which fails when the process is gone.
is_volume_command(m, pid) ==
    IF \E i \in 1..Len(m.queue) : m.queue[i] = pid THEN FALSE
    ELSE IF \E proc \in m.procs : proc.pid = pid
         THEN LET args == (CHOOSE proc \in m.procs : proc.pid = pid).args IN
              \E i \in 1..Len(args) : args[i] \in VolumeWords
         ELSE FALSE

\* get_volume_info(): Command::new("wpctl").args(["get-volume", ..]).output()
\* runs wpctl as a child and waits for its exit; the child connects to
\* pipewire, so a global of its own is due.  Then std::process::id() is put
\* on the queue.  The outcome is "no-exec" (wpctl could not be executed),
\* "failed" (exit status), "garbled" (output not understood) or "ok".
get_volume_info(m, outcome) ==
    IF outcome = "no-exec"
    THEN [m |-> m, ok |-> FALSE]
    ELSE [m  |-> [m EXCEPT !.next_pid = @ + 1,
                           !.events   = Append(@, [app |-> "wpctl", pid |-> m.next_pid]),
                           !.own      = Append(@, m.next_pid),
                           !.added    = Append(@, MonitorPid),
                           !.queue    = add_get_volume_pid(@, MonitorPid)],
          ok |-> outcome = "ok"]

\* The listener's global closure on the oldest pending global: a Client
\* whose application.name is wpctl and whose pid is_volume_command accepts
\* makes the monitor query the volume and, if that worked, run the client.
HandleGlobal(outcome) ==
    /\ monitor.events # <<>>
    /\ outcome \in {"no-exec", "failed", "garbled", "ok"}
    /\ LET global == Head(monitor.events)
           m0     == [monitor EXCEPT !.events = Tail(@)]
       IN  IF global.app = "wpctl" /\ is_volume_command(m0, global.pid)
           THEN \E r \in {get_volume_info([m0 EXCEPT !.reactions = Append(@, global.pid)],
                                          outcome)} :
                    monitor' = IF r.ok THEN [r.m EXCEPT !.spawned = @ + 1] ELSE r.m
           ELSE monitor' = m0
    /\ UNCHANGED <<pipe, buffer, ui, timeout_source_id, sources, next_source_id,
                   sent, writes, handed, applied, batch, hides, elapsed, startup,
                   client, service>>

\* What the user runs: wpctl commands and another pipewire client.
UserPrograms ==
    { [app |-> "wpctl", args |-> <<"wpctl", "set-volume", "@DEFAULT_AUDIO_SINK@", "5%+">>],
      [app |-> "wpctl", args |-> <<"wpctl", "set-mute", "@DEFAULT_AUDIO_SINK@", "toggle">>],
      [app |-> "wpctl", args |-> <<"wpctl", "status">>],
      [app |-> "mpv",   args |-> <<"mpv", "set-volume">>] }

\* The user starts a program, which connects to pipewire: the registry
\* announces the new client.
UserRuns(program) ==
    /\ monitor.commands < MaxCommands
    /\ program \in UserPrograms
    /\ monitor' = [monitor EXCEPT
                      !.commands = @ + 1,
                      !.next_pid = @ + 1,
                      !.procs    = @ \cup {[pid |-> monitor.next_pid, args |-> program.args]},
                      !.events   = Append(@, [app |-> program.app, pid |-> monitor.next_pid])]
    /\ UNCHANGED <<pipe, buffer, ui, timeout_source_id, sources, next_source_id,
                   sent, writes, handed, applied, batch, hides, elapsed, startup,
                   client, service>>

\* A program of the user exits.
ProcessExits(proc) ==
    /\ proc \in monitor.procs
    /\ monitor' = [monitor EXCEPT !.procs = @ \ {proc}]
    /\ UNCHANGED <<pipe, buffer, ui, timeout_source_id, sources, next_source_id,
                   sent, writes, handed, applied, batch, hides, elapsed, startup,
                   client, service>>

MonitorNext ==
    \/ \E program \in UserPrograms : UserRuns(program)
    \/ \E proc \in monitor.procs : ProcessExits(proc)
    \/ \E outcome \in {"no-exec", "failed", "garbled", "ok"} : HandleGlobal(outcome)

MonitorSpec == Init /\ [][MonitorNext]_vars

\* The pids add_get_volume_pid is called with in QueueSpec.
Pids == MonitorPid..(MonitorPid + MAX_QUEUE_SIZE)

\* One call add_get_volume_pid(pid).
AddPid(pid) ==
    /\ Len(monitor.added) < MaxAdds
    /\ pid \in Pids
    /\ monitor' = [monitor EXCEPT !.queue = add_get_volume_pid(@, pid),
                                  !.added = Append(@, pid)]
    /\ UNCHANGED <<pipe, buffer, ui, timeout_source_id, sources, next_source_id,
                   sent, writes, handed, applied, batch, hides, elapsed, startup,
                   client, service>>

QueueNext == \E pid \in Pids : AddPid(pid)

\* Any sequence of calls of add_get_volume_pid on the empty queue.
QueueSpec == Init /\ [][QueueNext]_vars

\* ------------------------------------------------- reading the histories
\* The bytes the read loop has taken from the pipe so far.
Consumed == SubSeq(sent, 1, Len(sent) - Len(pipe))

\* The delimited runs of a byte stream, in order (the empty ones included).
RECURSIVE RunsFrom(_, _, _)
RunsFrom(s, i, cur) ==
    IF i > Len(s) THEN <<>>
    ELSE IF s[i] = NUL THEN <<cur>> \o RunsFrom(s, i + 1, <<>>)
    ELSE RunsFrom(s, i + 1, Append(cur, s[i]))

Runs(s) == RunsFrom(s, 1, <<>>)

\* The bytes after the last delimiter of a byte stream.
Trailing(s) ==
    IF \E i \in 1..Len(s) : s[i] = NUL
    THEN SubSeq(s, 1 + (CHOOSE i \in 1..Len(s) :
                           s[i] = NUL /\ \A j \in (i + 1)..Len(s) : s[j] # NUL), Len(s))
    ELSE s

InBound(run) == Len(run) \in 1..MAX_MESSAGE_SIZE
Oversized(run) == Len(run) > MAX_MESSAGE_SIZE
Parses(run) == from_utf8(run) /\ from_str_ok(run)

\* Every run of the stream is a well-formed frame with its delimiter.
WellFormedStream(s) ==
    /\ Trailing(s) = <<>>
    /\ \A runs \in {Runs(s)} : \A j \in 1..Len(runs) : InBound(runs[j])

\* No run of the stream, delimited or not, is longer than MAX_MESSAGE_SIZE.
NoOversizedRun(s) ==
    /\ ~Oversized(Trailing(s))
    /\ \A runs \in {Runs(s)} : \A j \in 1..Len(runs) : ~Oversized(runs[j])

RECURSIVE MessagesOf(_)
MessagesOf(runs) ==
    IF runs = <<>> THEN <<>>
    ELSE (IF runs[1] # <<>> /\ Parses(runs[1]) THEN <<from_str(runs[1])>> ELSE <<>>)
             \o MessagesOf(Tail(runs))

\* a is b with some elements left out.
RECURSIVE IsSubseq(_, _)
IsSubseq(a, b) ==
    IF a = <<>> THEN TRUE
    ELSE IF b = <<>> THEN FALSE
    ELSE IF a[1] = b[1] THEN IsSubseq(Tail(a), Tail(b))
    ELSE IsSubseq(a, Tail(b))

\* --------------------------------------------------------------------- C1
\* C1: for a stream of well-formed frames, however it is cut into reads, the
\* frames handed to the parser are exactly the frames sent whose delimiter
\* has been read, in order and byte for byte, and the bytes after the last
\* delimiter read wait in the pending buffer.
FramingIndependentOfChunking ==
    WellFormedStream(sent) =>
        /\ handed = Runs(Consumed)
        /\ buffer = Trailing(Consumed)

\* Three well-formed frames were sent and read, among them the frame of
\* exactly MAX_MESSAGE_SIZE bytes, which no single read can hold.
FramingWitness ==
    /\ WellFormedStream(sent)
    /\ pipe = <<>>
    /\ Len(handed) = 3
    /\ handed[2] = BrightnessFrame
    /\ handed[1] # handed[3]

\* --------------------------------------------------------------------- C2
\* C2: when no run is oversized, the messages applied to the display state
\* are the messages of the frames completed so far, in the order in which
\* the frames completed, whether or not several complete in one read.
OrderPreserved ==
    NoOversizedRun(sent) => applied = MessagesOf(Runs(Consumed))

\* One read completed three frames with three different messages.
OrderWitness ==
    /\ batch = 3
    /\ Len(applied) = 3
    /\ applied[1] # applied[2]
    /\ applied[2] # applied[3]
    /\ applied[1] # applied[3]

\* Three different messages were applied by three different reads.
OrderSpreadWitness ==
    /\ batch = 1
    /\ Len(applied) = 3
    /\ applied[1] # applied[2]
    /\ applied[2] # applied[3]

\* --------------------------------------------------------------------- C3
\* C3: at most one hide timer is pending in every reachable state.
AtMostOneTimer == Cardinality(sources) <= 1

\* A second message was applied while the first timer was pending, and time
\* has passed since.
OneTimerWitness ==
    /\ Len(applied) >= 2
    /\ timeout_source_id = Some(2)
    /\ Cardinality(sources) = 1
    /\ elapsed > 0

\* --------------------------------------------------------------------- C4
\* C4: the timer that fires is the one the most recently applied message
\* armed, and it is the one whose id is stored; every pending timer is the
\* stored one, so a superseded timer neither fires nor clears the handle.
FiredTimerIsNewest ==
    [][\A s \in sources :
          TimerFire(s) => /\ s.id = next_source_id - 1
                          /\ timeout_source_id = Some(s.id)]_vars

\* Two timers were armed and only one hide has happened: the first timer
\* was replaced while pending, and the second has fired.
FiredWitness ==
    /\ next_source_id = 3
    /\ hides = 1
    /\ ~ui.window
    /\ timeout_source_id = None
    /\ sources = {}

\* --------------------------------------------------------------------- C5
\* C5: the surface is visible while less than the window has passed since
\* the last message of a known type was applied; a hide happens exactly one
\* window after that message and leaves no timer behind that could hide
\* again; and under the main loop's fairness a visible surface is eventually
\* hidden.
Debounce ==
    /\ []((\E k \in 1..Len(applied) : applied[k].message_type \in KnownTypes)
             /\ elapsed < HIDE_SECONDS => ui.window)
    /\ [][\A s \in sources :
             TimerFire(s) => /\ elapsed = HIDE_SECONDS
                             /\ ui.window
                             /\ ~ui'.window
                             /\ sources' = {}]_vars
    /\ [](ui.window => <>(~ui.window))

\* A burst of three messages of known types, applied by three reads, armed
\* three timers; the surface has been hidden once, a full window after the
\* last of them.
DebounceWitness ==
    /\ Len(applied) = 3
    /\ \A k \in 1..3 : applied[k].message_type \in KnownTypes
    /\ batch = 1
    /\ next_source_id = 4
    /\ hides = 1
    /\ ~ui.window
    /\ elapsed = HIDE_SECONDS

\* --------------------------------------------------------------------- C6
\* Some oversized run has been read to its delimiter, and a well-formed
\* frame after it as well.
OversizedThenFrame(runs) ==
    \E j \in 2..Len(runs) : Oversized(runs[j - 1]) /\ InBound(runs[j])

\* C6: once an oversized run and its delimiter are behind, the well-formed
\* frames read are handed to the parser intact and in order, and those that
\* parse are applied, whatever the chunking.
OverflowRecovery ==
    \A runs \in {Runs(Consumed)} :
        OversizedThenFrame(runs) =>
            /\ \A good \in {SelectSeq(runs, InBound)} :
                   /\ IsSubseq(good, handed)
                   /\ IsSubseq(MessagesOf(good), applied)
            /\ (InBound(runs[Len(runs)]) /\ Oversized(runs[Len(runs) - 1]) =>
                    /\ handed[Len(handed)] = runs[Len(runs)]
                    /\ (Parses(runs[Len(runs)]) =>
                            applied[Len(applied)] = from_str(runs[Len(runs)])))

\* The undelimited run, the frame that ends it and a text message were read;
\* the text message is the last frame handed on and is on the display.
OverflowWitness ==
    /\ pipe = <<>>
    /\ Len(Runs(sent)) = 2
    /\ Oversized(Runs(sent)[1])
    /\ Runs(sent)[2] = TextFrame
    /\ handed[Len(handed)] = TextFrame
    /\ ui.label /\ ui.label_text = "Muted"

\* --------------------------------------------------------------------- C7
\* C7: nothing but a complete run of at most MAX_MESSAGE_SIZE bytes is ever
\* handed to the parser, and only the messages of such runs are applied: no
\* part of an oversized run, its tail included, gets through.
OversizedRunNeverHanded ==
    \A good \in {SelectSeq(Runs(Consumed), InBound)} :
        /\ IsSubseq(handed, good)
        /\ IsSubseq(applied, MessagesOf(good))

\* --------------------------------------------------------------------- C8
\* The number of frames among the first j runs that parse.
RECURSIVE ParsedAmong(_, _)
ParsedAmong(runs, j) ==
    IF j = 0 THEN 0
    ELSE ParsedAmong(runs, j - 1) + (IF runs[j] # <<>> /\ Parses(runs[j]) THEN 1 ELSE 0)

\* C8: with no oversized run in the stream, a frame that does not parse
\* between two frames that do is dropped: the two messages are applied one
\* right after the other, and the pending buffer holds nothing of the
\* dropped frame.
MalformedResilience ==
    NoOversizedRun(sent) =>
        \A runs \in {Runs(Consumed)} : \A j \in 2..(Len(runs) - 1) :
            (Parses(runs[j - 1]) /\ InBound(runs[j]) /\ ~Parses(runs[j]) /\ Parses(runs[j + 1])) =>
                LET k == ParsedAmong(runs, j) IN
                /\ Len(applied) >= k + 1
                /\ applied[k] = from_str(runs[j - 1])
                /\ applied[k + 1] = from_str(runs[j + 1])
                /\ buffer = Trailing(Consumed)

\* A malformed frame of each kind was dropped between two applied messages.
MalformedFrames == {<<"0xFF">>, <<"junk">>, <<"text:Muted">>}

MalformedWitness ==
    /\ pipe = <<>>
    /\ Len(Runs(sent)) = 3
    /\ Runs(sent)[2] \in MalformedFrames
    /\ Len(handed) = 3
    /\ Len(applied) = 2
    /\ applied[1].message_type = "volume"
    /\ applied[2].message_type = "text"
    /\ buffer = <<>>

\* --------------------------------------------------------------------- C9
\* The message carries the fields its type requires.
HasRequiredFields(m) ==
    \/ m.message_type \in {"volume", "brightness"} /\ m.value # None /\ m.max_value # None
    \/ m.message_type = "text" /\ m.text # None

\* The progress bar shows value/max (in thousandths, at most 1000).
ShowsLevel(w, value, max) ==
    /\ w.progress_bar /\ w.icon /\ ~w.label
    /\ w.fraction \in 0..1000
    /\ (value <= max => w.fraction * max <= value * 1000 /\ value * 1000 < (w.fraction + 1) * max)
    /\ (value > max => w.fraction = 1000)

\* C9: a callback run whose last applied message is a volume, brightness or
\* text message with its required fields ends Visible with that message
\* rendered; the timer stored before, if any, is no longer pending, and the
\* one pending timer is new, has the full window to run, and is stored.
DisplayTransition ==
    [][(Len(applied') > Len(applied) /\ HasRequiredFields(applied'[Len(applied')])) =>
          LET m == applied'[Len(applied')] IN
          /\ ui'.window
          /\ (m.message_type = "volume" =>
                  ShowsLevel(ui', m.value[1], m.max_value[1]) /\ ui'.icon_name # "brightness")
          /\ (m.message_type = "brightness" =>
                  ShowsLevel(ui', m.value[1], m.max_value[1]) /\ ui'.icon_name = "brightness")
          /\ (m.message_type = "text" =>
                  ui'.label /\ ui'.label_text = m.text[1] /\ ~ui'.progress_bar /\ ~ui'.icon)
          /\ timeout_source_id' # None
          /\ timeout_source_id' # timeout_source_id
          /\ (timeout_source_id # None =>
                  \A s \in sources' : s.id # timeout_source_id[1])
          /\ sources' = {[id |-> timeout_source_id'[1], remaining |-> HIDE_SECONDS]}]_vars

\* The scenario: volume 45/100, then the text "Muted" by a later read while
\* the first timer was running; the text is shown and timer 2 has replaced
\* timer 1.
ScenarioWitness ==
    /\ applied = <<from_str(VolumeFrame), from_str(TextFrame)>>
    /\ batch = 1
    /\ ui.window /\ ui.label /\ ui.label_text = "Muted"
    /\ ~ui.progress_bar /\ ~ui.icon
    /\ ui.fraction = 450
    /\ timeout_source_id = Some(2)
    /\ sources = {[id |-> 2, remaining |-> HIDE_SECONDS]}

\* -------------------------------------------------------------------- C10
\* C10: a callback run that applies only messages of unknown type leaves
\* the widgets, the stored timer id and the pending timers with their
\* remaining time as they were, whether the surface is hidden or visible.
UnknownTypeIsNoOp ==
    [][(/\ Len(applied') > Len(applied)
        /\ \A k \in (Len(applied) + 1)..Len(applied') :
               applied'[k].message_type \notin KnownTypes) =>
          /\ ui' = ui
          /\ timeout_source_id' = timeout_source_id
          /\ sources' = sources]_vars

\* A message of unknown type was the one the latest read applied, the
\* surface is visible and its timer has already run for a while.
UnknownVisibleWitness ==
    /\ batch = 1
    /\ applied[Len(applied)].message_type = "other"
    /\ ui.window
    /\ \E s \in sources : s.remaining < HIDE_SECONDS /\ timeout_source_id = Some(s.id)

\* -------------------------------------------------------------------- C11
\* A volume or brightness message without value or without max_value.
IncompleteLevel(m) ==
    /\ m.message_type \in {"volume", "brightness"}
    /\ (m.value = None \/ m.max_value = None)

\* C11: a callback run that applies only volume or brightness messages in
\* which value or max_value is absent leaves the display state as it was: the
\* surface is not made visible, the widgets keep their content, and the hide
\* timer is neither cancelled nor re-armed.
IncompleteLevelNotApplied ==
    [][(/\ Len(applied') > Len(applied)
        /\ \A k \in (Len(applied) + 1)..Len(applied') : IncompleteLevel(applied'[k])) =>
          /\ ui' = ui
          /\ timeout_source_id' = timeout_source_id
          /\ sources' = sources]_vars

\* -------------------------------------------------------------------- C12
ExactlyMax(run) == Len(run) = MAX_MESSAGE_SIZE

\* C12: no frame handed to the parser is longer than MAX_MESSAGE_SIZE, for
\* any stream and any chunking, and every delimited run of exactly
\* MAX_MESSAGE_SIZE bytes that was read has been handed on.
FrameSizeBound ==
    /\ \A k \in 1..Len(handed) : Len(handed[k]) <= MAX_MESSAGE_SIZE
    /\ \A full \in {SelectSeq(Runs(Consumed), ExactlyMax)} : IsSubseq(full, handed)

\* An oversized run was read to its delimiter and dropped, and a frame of
\* exactly MAX_MESSAGE_SIZE bytes was handed on.
SizeBoundWitness ==
    /\ pipe = <<>>
    /\ \E j \in 1..Len(Runs(sent)) : Oversized(Runs(sent)[j])
    /\ \E k \in 1..Len(handed) : ExactlyMax(handed[k])
    /\ Len(handed) < Len(Runs(sent))

\* -------------------------------------------------------------------- C13
\* a is the end of b.
IsSuffix(a, b) ==
    /\ Len(a) <= Len(b)
    /\ a = SubSeq(b, Len(b) - Len(a) + 1, Len(b))

\* Each frame is the end of a run of its own, in the order of the runs.
RECURSIVE EndsOfRuns(_, _)
EndsOfRuns(frames, runs) ==
    IF frames = <<>> THEN TRUE
    ELSE IF runs = <<>> THEN FALSE
    ELSE IF IsSuffix(frames[1], runs[1]) THEN EndsOfRuns(Tail(frames), Tail(runs))
    ELSE EndsOfRuns(frames, Tail(runs))

\* C13: every frame handed on, and so every message applied, ends at a
\* delimiter that has been read: the frames handed on are ends of distinct
\* delimited runs, the applied messages are the messages of those frames,
\* the bytes read after the last delimiter are nowhere but in the pending
\* buffer, and as long as no delimiter has been read the display is as
\* create_ui left it, whatever the reads returned.
NothingBeforeDelimiter ==
    \A runs \in {Runs(Consumed)} :
        /\ EndsOfRuns(handed, runs)
        /\ applied = MessagesOf(handed)
        /\ IsSuffix(buffer, Trailing(Consumed))
        /\ (runs = <<>> =>
               /\ handed = <<>> /\ applied = <<>>
               /\ ui = InitUi /\ timeout_source_id = None /\ sources = {})

\* The first bytes of a text message, which would parse as they are, wait in
\* the pending buffer; the reads after them returned end-of-stream,
\* would-block and an error, and nothing has been applied.
PendingWitness ==
    /\ buffer = HeadOfText
    /\ Parses(buffer)
    /\ pipe = <<>>
    /\ polled = {"eof", "wouldblock", "error"}
    /\ handed = <<>> /\ applied = <<>>
    /\ ~ui.window /\ sources = {}

\* -------------------------------------------------------------------- C14
\* C14: the read loop is only ever scheduled, and the application only ever
\* runs, with a FIFO at PIPE_PATH that this run's mkfifo created after what
\* was there before had been removed; when remove_file or mkfifo fails, main
\* has returned the error: nothing is read and no read loop exists.
ChannelSetup ==
    /\ (pc \in {"activating", "active"} => path = "fifo")
    /\ (idle => path = "fifo" /\ pc = "active")
    /\ (error \in {"gtk", "remove", "mkfifo"} => pc = "failed" /\ ~idle /\ sent = <<>>)
    /\ (pc = "failed" => path # "fifo")

\* A file left by an earlier run was at PIPE_PATH; it was removed, the FIFO
\* created, and the read loop has applied a message read from it.
FreshChannelWitness ==
    /\ found = "stale"
    /\ path = "fifo"
    /\ idle
    /\ applied # <<>>

\* -------------------------------------------------------------------- C15
\* C15: when the open of the pipe for reading has failed, the presenter has
\* terminated with a failure; it never runs without a read loop.
OpenFailureIsFatal ==
    /\ (error = "open" => pc = "failed")
    /\ (pc = "active" => idle)

\* -------------------------------------------------------------------- C16
\* C16: once the read loop has been started it is scheduled in every later
\* state, whatever its reads returned and whatever the bytes were.
ReadLoopNeverStops ==
    (pc = "active" /\ error = "none") => idle

\* The loop has read an oversized run, a frame that is no UTF-8, a frame
\* that is no JSON and a message of unknown type, its latest reads returned
\* end-of-stream, would-block and an error, and it is still scheduled.
EveryOutcomeWitness ==
    /\ idle
    /\ pipe = <<>>
    /\ polled = {"eof", "wouldblock", "error"}
    /\ \E j \in 1..Len(Runs(sent)) : Oversized(Runs(sent)[j])
    /\ \E k \in 1..Len(handed) : ~from_utf8(handed[k])
    /\ \E k \in 1..Len(handed) : from_utf8(handed[k]) /\ ~from_str_ok(handed[k])
    /\ \E k \in 1..Len(applied) : applied[k].message_type \notin KnownTypes

\* -------------------------------------------------------------------- C17
\* The text is JSON: one or more members, white space between them.
IsJson(str) ==
    /\ \E i \in 1..Len(str) : str[i] # " "
    /\ \A i \in 1..Len(str) : str[i] \in DOMAIN Members \cup {" "}

\* C17 as claimed: a run of `json` whose argument does not parse as a message
\* of the wire format passes nothing to send_message and fails.
RawArgumentSchemaChecked ==
    (/\ client.pc = "exited"
     /\ client.command.cmd = "json"
     /\ ~Parses(client.command.message)) =>
        /\ client.calls = <<>>
        /\ client.exit_code # 0

\* C17 as amended: a run of `json` whose argument is no JSON passes nothing
\* to send_message and fails; an argument that is JSON is passed to
\* send_message as it is, whether or not it is a message of the wire format.
RawArgumentJsonChecked ==
    (client.pc = "exited" /\ client.command.cmd = "json") =>
        /\ (~IsJson(client.command.message) =>
               client.calls = <<>> /\ client.exit_code # 0)
        /\ (IsJson(client.command.message) /\ client.result # "Err:connect" =>
               client.calls = <<client.command.message>>)

\* `json` was run with an argument that is no JSON while the bus was
\* reachable: the validation failed, nothing was sent, the exit code is 1.
JsonRefusedWitness ==
    /\ client.command = Json(<<"junk">>)
    /\ client.result = "Err:validate"
    /\ client.calls = <<>>
    /\ client.exit_code = 1

\* -------------------------------------------------------------------- C18
\* C18: a run of the producer CLI, whatever the subcommand, that exits with
\* code 0 made one send call and the call succeeded; a run whose send call
\* failed, and a run of `json` whose argument failed the validation, exits
\* with a code other than 0.
ExitCodeFaithful ==
    client.pc = "exited" =>
        /\ (client.exit_code = 0 =>
               Len(client.calls) = 1 /\ client.delivered = client.calls)
        /\ (client.delivered # client.calls => client.exit_code # 0)
        /\ (client.command.cmd = "json" /\ ~IsJson(client.command.message) =>
               client.exit_code # 0)

\* The second run of the CLI was a backend whose script succeeded, but the
\* send call failed: the exit code is 1.
ExitCodeWitness ==
    /\ client.runs = 2
    /\ client.command = Backend("volume")
    /\ Len(client.calls) = 1
    /\ client.delivered = <<>>
    /\ client.result = "Err:send"
    /\ client.exit_code = 1

\* -------------------------------------------------------------------- C19
\* C19: a send that finds no reader retries: it fails only after its fifth
\* attempt, never makes more than five, and a message that is delivered is
\* delivered once.
SendRetriesToBound ==
    client.pc = "exited" =>
        /\ client.attempts <= 5
        /\ (client.result = "Err:send" => client.attempts = 5)
        /\ Len(client.delivered) <= 1

\* -------------------------------------------------------------------- C20
\* The latest n elements of a sequence.
Latest(q, n) == SubSeq(q, IF Len(q) > n THEN Len(q) - n + 1 ELSE 1, Len(q))

\* C20: the queue holds the pids of the latest wpctl invocations that
\* get_volume_info made, and is_volume_command has accepted none of the
\* monitor's own invocations.
SelfFiltering ==
    /\ Latest(monitor.own, MAX_QUEUE_SIZE) = monitor.queue
    /\ \A i \in 1..Len(monitor.own), j \in 1..Len(monitor.reactions) :
           monitor.own[i] # monitor.reactions[j]

\* -------------------------------------------------------------------- C21
\* The bytes a step has taken from the pipe.
ChunkRead == SubSeq(pipe, 1, Len(pipe) - Len(pipe'))

HasDelimiter(chunk) == \E i \in 1..Len(chunk) : chunk[i] = NUL

\* The bytes of a chunk before its first delimiter.
BeforeDelimiter(chunk) ==
    SubSeq(chunk, 1, (CHOOSE i \in 1..Len(chunk) :
                         chunk[i] = NUL /\ \A j \in 1..(i - 1) : chunk[j] # NUL) - 1)

\* C21: a read that returns end-of-stream, would-block or an error changes
\* neither the pending buffer nor the pipe, the display or the scheduling
\* of the read loop; and a partial frame that was pending over such reads
\* is extended by the bytes read next, and handed on whole when they bring
\* its delimiter.
TransientReads ==
    /\ [][(polled' # polled /\ polled' # {}) =>
             /\ buffer' = buffer /\ pipe' = pipe
             /\ ui' = ui /\ timeout_source_id' = timeout_source_id /\ sources' = sources
             /\ handed' = handed /\ applied' = applied
             /\ idle' = idle /\ path' = path /\ pc' = pc]_vars
    /\ [][(/\ buffer # <<>>
           /\ polled \cap {"eof", "wouldblock"} # {}
           /\ Len(pipe') < Len(pipe)) =>
             \A chunk \in {ChunkRead} :
                 IF HasDelimiter(chunk)
                 THEN Len(buffer \o BeforeDelimiter(chunk)) <= MAX_MESSAGE_SIZE =>
                          /\ Len(handed') > Len(handed)
                          /\ handed'[Len(handed) + 1] = buffer \o BeforeDelimiter(chunk)
                 ELSE Len(buffer \o chunk) <= MAX_MESSAGE_SIZE =>
                          buffer' = buffer \o chunk]_vars

\* The first producer wrote the first bytes of a text message and closed;
\* the reads after that returned end-of-stream and would-block; the bytes
\* are still pending, and the next producer has written the rest.
KeptWitness ==
    /\ buffer = HeadOfText
    /\ polled = {"eof", "wouldblock"}
    /\ pipe = RestOfText
    /\ idle
    /\ applied = <<>>

\* -------------------------------------------------------------------- C22
\* C22: the pending buffer never holds more than MAX_MESSAGE_SIZE bytes.  A
\* read that brings a delimiter leaves in it the bytes after the last
\* delimiter; a read that brings none extends it, or empties it when the
\* bytes would not fit; and no other step changes it.
PendingBufferBound ==
    /\ [](Len(buffer) <= MAX_MESSAGE_SIZE)
    /\ [][Len(pipe') < Len(pipe) =>
             \A chunk \in {ChunkRead} :
                 buffer' = IF HasDelimiter(chunk) THEN Trailing(chunk)
                           ELSE IF Len(buffer) + Len(chunk) > MAX_MESSAGE_SIZE THEN <<>>
                           ELSE buffer \o chunk]_vars
    /\ [][Len(pipe') >= Len(pipe) => buffer' = buffer]_vars

\* The undelimited run was read to its end: the buffer was full and the
\* overflow has emptied it, with nothing handed on.
OverflowEmptiedWitness ==
    /\ sent = UndelimitedRun
    /\ pipe = <<>>
    /\ buffer = <<>>
    /\ handed = <<>>

\* -------------------------------------------------------------------- C23
\* C23: a pass-through message is checked before it is sent, the output of
\* a backend script as well as the argument of `json` (which is C17): every
\* message a run of `backend` has passed to send_message parses as a message
\* of the wire format.
PassThroughChecked ==
    (client.pc = "exited" /\ client.command.cmd = "backend") =>
        \A k \in 1..Len(client.calls) : Parses(client.calls[k])

\* -------------------------------------------------------------------- C24
\* C24: between callbacks of the main loop the window is visible exactly
\* when a hide timeout is pending, and timeout_source_id holds an id exactly
\* when that id is the id of a pending source (one that has neither been
\* dispatched nor removed); there is never a pending source that is not the
\* stored one.
VisibleIffTimerPending ==
    /\ ui.window <=> (sources # {})
    /\ (timeout_source_id # None) <=> (\E s \in sources : timeout_source_id = Some(s.id))
    /\ \A s \in sources : timeout_source_id = Some(s.id)

\* The window has been hidden by a timer, a later message has shown it
\* again, and the timer of that message is stored and due.
ShownAgainWitness ==
    /\ hides >= 1
    /\ ui.window
    /\ timeout_source_id = Some(2)
    /\ sources = {[id |-> 2, remaining |-> 0]}

\* -------------------------------------------------------------------- C25
\* The last message handle_message rendered: the last applied message that
\* carries the fields its type requires (any other renders nothing).
LastRendered ==
    LET idx == {i \in 1..Len(applied) : HasRequiredFields(applied[i])} IN
    IF idx = {} THEN None
    ELSE Some(applied[CHOOSE i \in idx : \A j \in idx : j <= i])

QueueHoldsLatest ==
    /\ Len(monitor.queue) <= MAX_QUEUE_SIZE
    /\ monitor.queue = Latest(monitor.added, MAX_QUEUE_SIZE)

\* More calls than the queue has room for, with different pids: the first
\* two pids have been evicted and the last MAX_QUEUE_SIZE are left in order.
EvictionWitness ==
    /\ Len(monitor.added) = MAX_QUEUE_SIZE + 2
    /\ \A i \in 1..MAX_QUEUE_SIZE : monitor.added[i] = MonitorPid + i - 1
    /\ monitor.added[MAX_QUEUE_SIZE + 1] = MonitorPid + MAX_QUEUE_SIZE
    /\ monitor.added[MAX_QUEUE_SIZE + 2] = MonitorPid
    /\ monitor.queue = SubSeq(monitor.added, 3, MAX_QUEUE_SIZE + 2)

=============================================================================
